---- MODULE Spec2Model ----
(***************************************************************************)
(* State-machine model of src/app.py: the CVE ingestion engine             *)
(* (fetch_and_store_cves, get_last_modified_date, schedule_cve_sync and    *)
(* the /fetch_cves route) running against an upstream paginated feed and a *)
(* document collection.                                                     *)
(*                                                                          *)
(* Threads: the two jobs schedule_cve_sync registers, each run by the       *)
(* scheduler's worker pool with one instance of a job at a time, and one    *)
(* request thread serving /fetch_cves.  Nothing in app.py orders them.      *)
(*                                                                          *)
(* One step of a run is one iteration of the while loop of                  *)
(* fetch_and_store_cves: the request, the processing of the page and the    *)
(* bulk write.  The request reads only the upstream feed, which does not    *)
(* change, so it commutes with every step of the other threads and the      *)
(* iteration is taken as one atomic step.                                   *)
(*                                                                          *)
(* Spec is the program with its three triggers interleaved.  SpecSeq is the *)
(* program in an environment whose triggers fire only while no run is in    *)
(* progress; it ranges over every feed and starting collection of the model *)
(* and is where the properties of a single run, or of runs in sequence, are *)
(* checked.                                                                 *)
(*                                                                          *)
(* The upstream is assumed to send strings for id, sourceIdentifier and     *)
(* vulnStatus, and an integer for totalResults, when it sends them at all.  *)
(***************************************************************************)
EXTENDS Integers, Sequences, FiniteSets, Bags, TLC

(***************************************************************************)
(* Bounds of the model                                                      *)
(***************************************************************************)
\* sync runs started in one behaviour (all triggers together)
MaxRuns == 3
\* raw items of the upstream feed the model tracks, over all its pages
MaxFeedItems == 3
\* items of one page the model tracks
SampleSize == 2

(***************************************************************************)
(* Program constants and Python values                                      *)
(***************************************************************************)
RESULTS_PER_PAGE == 200

\* total_results = None (line 38): the total is not yet learned
NoTotal == -1

\* last_modified_date = None: no cutoff
None == "<None>"

\* a key that is absent from an upstream JSON object
Absent == "<absent>"

Unknown == "Unknown"

\* the three triggers: the two scheduler jobs and the /fetch_cves route
Procs == {"incremental", "full", "ondemand"}

(***************************************************************************)
(* Raw upstream values                                                      *)
(***************************************************************************)
\* A raw date value of an upstream item.  kind: "absent" (no such key),
\* "null", "num" (a JSON number), "str".  A string is described by its
\* layout (fmt) and the digits of its date part.
RawDate(kind, fmt, y, mo, d) == [kind |-> kind, fmt |-> fmt, y |-> y, mo |-> mo, d |-> d]

\* "2023-01-01T10:00:00.000"
TsJan == RawDate("str", "%Y-%m-%dT%H:%M:%S.%f", 2023, 1, 1)
\* "2023-06-15T08:30:00.000"
TsJun == RawDate("str", "%Y-%m-%dT%H:%M:%S.%f", 2023, 6, 15)
\* "2023-06-15" (a date without time)
DateOnlyJun == RawDate("str", "%Y-%m-%d", 2023, 6, 15)
\* "2023-13-01T00:00:00.000" (the expected layout, month out of range)
TsBadMonth == RawDate("str", "%Y-%m-%dT%H:%M:%S.%f", 2023, 13, 1)
\* ""
EmptyStr == RawDate("str", "", 0, 0, 0)
\* null
NullDate == RawDate("null", "", 0, 0, 0)
\* key absent
AbsentDate == RawDate("absent", "", 0, 0, 0)
\* a JSON number, 20230615
NumDate == RawDate("num", "", 2023, 6, 15)

RawDates == {TsJan, TsJun, DateOnlyJun, TsBadMonth, EmptyStr, NullDate, AbsentDate, NumDate}

\* str.strip() on the strings of the model
Strip(s) ==
    CASE s = "   " -> ""
      [] s = " CVE-2 " -> "CVE-2"
      [] s = " nvd@nist.gov " -> "nvd@nist.gov"
      [] OTHER -> s

\* two decimal digits, as date.isoformat() writes month and day
Pad2(n) == IF n < 10 THEN "0" \o ToString(n) ELSE ToString(n)

IsoFormat(y, mo, d) == ToString(y) \o "-" \o Pad2(mo) \o "-" \o Pad2(d)

DaysIn(y, mo) ==
    IF mo \in {4, 6, 9, 11} THEN 30
    ELSE IF mo = 2 THEN (IF (y % 4 = 0 /\ y % 100 # 0) \/ y % 400 = 0 THEN 29 ELSE 28)
    ELSE 31

\* Mutant of StrptimeOk: a parser that also takes a date without time.
StrptimeLenient(v) ==
    /\ v.kind = "str"
    /\ v.fmt \in {"%Y-%m-%dT%H:%M:%S.%f", "%Y-%m-%d"}
    /\ v.mo \in 1..12
    /\ v.d \in 1..DaysIn(v.y, v.mo)

\* datetime.strptime(date_str, "%Y-%m-%dT%H:%M:%S.%f") succeeds
StrptimeOk(v) ==
    /\ v.kind = "str"
    /\ v.fmt = "%Y-%m-%dT%H:%M:%S.%f"
    /\ v.y \in 1..9999
    /\ v.mo \in 1..12
    /\ v.d \in 1..DaysIn(v.y, v.mo)

\* `not date_str`: None, "", 0
Falsy(v) ==
    \/ v.kind = "null"
    \/ v.kind = "str" /\ v.fmt = ""
    \/ v.kind = "num" /\ v.y = 0

\* cve_data.get(key, "Unknown") on a date key: the default is the string
\* "Unknown", which strptime rejects
GetDate(v) == IF v.kind = "absent" THEN RawDate("str", "text", 0, 0, 0) ELSE v

\* datetime.strptime(date_str, "%Y-%m-%dT%H:%M:%S.%f").date().isoformat():
\* the date, or the exception raised (TypeError for an argument that is no
\* string, ValueError for a string that does not match)
Strptime(v) ==
    IF v.kind # "str" THEN "TypeError"
    ELSE IF StrptimeOk(v) THEN IsoFormat(v.y, v.mo, v.d)
    ELSE "ValueError"

\* Mutant of clean_date: None, not "Unknown", for a value that is falsy.
CleanDateNullable(date_str) ==
    IF Falsy(date_str) THEN None
    ELSE IF Strptime(date_str) \in {"ValueError", "TypeError"} THEN Unknown
    ELSE Strptime(date_str)

\* lines 19-33: both exceptions are caught
clean_date(date_str) ==
    IF Falsy(date_str) THEN Unknown
    ELSE IF Strptime(date_str) = "ValueError" THEN Unknown
    ELSE IF Strptime(date_str) = "TypeError" THEN Unknown
    ELSE Strptime(date_str)

(***************************************************************************)
(* The upstream feed                                                        *)
(***************************************************************************)
\* one element of data["vulnerabilities"]: the object under its "cve" key
Item(id, src, pub, lm, st) ==
    [id |-> id, sourceIdentifier |-> src, published |-> pub, lastModified |-> lm,
     vulnStatus |-> st]

ItemA == Item("CVE-1", " nvd@nist.gov ", TsJan, TsJan, "Analyzed")
\* the same id as ItemA with other fields
ItemB == Item("CVE-1", "mitre", TsJan, TsJun, "Modified")
\* padded id, missing and unparseable fields
ItemC == Item(" CVE-2 ", Absent, DateOnlyJun, NullDate, Absent)
\* whitespace-only id
ItemD == Item("   ", "mitre", TsJun, TsJun, "Rejected")

Items == {ItemA, ItemB, ItemC, ItemD}

\* totalResults values the upstream reports
Totals == {0, 200, 450}

SeqsUpTo(S, n) == UNION {[1..k -> S] : k \in 0..n}

Min(a, b) == IF a < b THEN a ELSE b

\* A feed: catalog holds the items the model tracks, SampleSize of them per
\* page (the page at offset k * RESULTS_PER_PAGE starts with items
\* k * SampleSize + 1 ..); total is the totalResults every response reports
\* (NoTotal: the key is missing); hasVulns is whether the responses carry
\* the "vulnerabilities" key.
Feed(catalog, total, hasVulns) ==
    [catalog |-> catalog, total |-> total, hasVulns |-> hasVulns]

Feeds ==
    {Feed(c, t, TRUE) : c \in SeqsUpTo(Items, MaxFeedItems), t \in Totals \cup {NoTotal}}
    \cup {Feed(<<>>, t, FALSE) : t \in Totals}

\* the tracked items of the page at offset startIndex
PageAt(f, startIndex) ==
    LET k == startIndex \div RESULTS_PER_PAGE
    IN  SubSeq(f.catalog, k * SampleSize + 1, Min((k + 1) * SampleSize, Len(f.catalog)))

\* binary order of the date strings the model stores, as the store's sort
\* compares them: digits sort before the letter "U"
StringOrder == <<"2023-01-01", "2023-06-15", "Unknown">>

Rank(s) == CHOOSE i \in 1..Len(StringOrder) : StringOrder[i] = s

\* The response body to GET NVD_API_URL with params (status 200): the page
\* at startIndex, restricted to the items modified on or after
\* modifiedSince when that is a date; a cutoff that is no date is ignored.
Upstream(f, startIndex, modifiedSince) ==
    LET page == PageAt(f, startIndex)
        Keep(it) ==
            \/ modifiedSince \in {None, Unknown}
            \/ /\ clean_date(GetDate(it.lastModified)) # Unknown
               /\ Rank(clean_date(GetDate(it.lastModified))) >= Rank(modifiedSince)
    IN  [totalResults |-> f.total, hasVulns |-> f.hasVulns,
         vulnerabilities |-> SelectSeq(page, Keep)]

(***************************************************************************)
(* Storage: the cve_data collection, a bag of documents (the collection has *)
(* no unique index)                                                         *)
(***************************************************************************)
Docs(st) == BagToSet(st)

Matching(st, cve_id) == {x \in Docs(st) : x.cve_id = cve_id}

StoredIds(st) == {x.cve_id : x \in Docs(st)}

\* Mutant of UpdateOne: an insert_one(clean_data) in place of the upsert.
InsertOne(st, clean_data) == st (+) SetToBag({clean_data})

\* Mutant of UpdateOne: the filter {} in place of {"cve_id": id}.
UpdateOneUnfiltered(st, clean_data) ==
    IF Docs(st) = {}
    THEN st (+) SetToBag({clean_data})
    ELSE LET x == CHOOSE x \in Docs(st) : TRUE
         IN  (st (-) SetToBag({x})) (+) SetToBag({clean_data})

\* UpdateOne({"cve_id": id}, {"$set": clean_data}, upsert=True): the five
\* fields of one matching document are set, or the document is inserted
UpdateOne(st, clean_data) ==
    IF Matching(st, clean_data.cve_id) = {}
    THEN st (+) SetToBag({clean_data})
    ELSE LET x == CHOOSE x \in Matching(st, clean_data.cve_id) : TRUE
         IN  (st (-) SetToBag({x})) (+) SetToBag({clean_data})

\* the first n operations of an ordered bulk write, applied in order
RECURSIVE ApplyOps(_, _, _)
ApplyOps(st, ops, n) ==
    IF n = 0 THEN st ELSE UpdateOne(ApplyOps(st, ops, n - 1), ops[n])

\* Mutant of bulk_write: the collection is replaced by the batch.
ReplaceCollection(st, bulk_updates) ==
    SetToBag({bulk_updates[i] : i \in 1..Len(bulk_updates)})

\* cve_collection.bulk_write(bulk_updates)
bulk_write(st, bulk_updates) == ApplyOps(st, bulk_updates, Len(bulk_updates))

\* cve_collection.find_one({}, sort=[("last_modified", -1)])["last_modified"],
\* None when the collection is empty
get_last_modified_date(st) ==
    IF Docs(st) = {} THEN None
    ELSE LET last_cve == CHOOSE x \in Docs(st) :
                            \A y \in Docs(st) :
                                Rank(y.last_modified) <= Rank(x.last_modified)
         IN  last_cve.last_modified

(***************************************************************************)
(* Processing one page (lines 60-86)                                        *)
(***************************************************************************)
\* cve_data.get(key, "Unknown").strip()
GetStripped(v) == IF v = Absent THEN Strip(Unknown) ELSE Strip(v)

\* cve_data.get("id", "").strip()
CveId(item) == IF item.id = Absent THEN Strip("") ELSE Strip(item.id)

CleanData(item) ==
    [cve_id |-> CveId(item),
     source_identifier |-> GetStripped(item.sourceIdentifier),
     published |-> clean_date(GetDate(item.published)),
     last_modified |-> clean_date(GetDate(item.lastModified)),
     status |-> GetStripped(item.vulnStatus)]

\* Mutant of Skip: the test without `or cve_id in seen_cve_ids`.
SkipEmptyOnly(cve_id, seen) == cve_id = ""

\* Mutant of Skip: the test without `not cve_id`.
SkipSeenOnly(cve_id, seen) == cve_id \in seen

\* `if not cve_id or cve_id in seen_cve_ids: continue`
Skip(cve_id, seen) == cve_id = "" \/ cve_id \in seen

\* the for loop over data["vulnerabilities"], from item n on
RECURSIVE ProcessItems(_, _, _, _)
ProcessItems(items, n, seen, batch) ==
    IF n > Len(items) THEN [seen |-> seen, batch |-> batch]
    ELSE IF Skip(CveId(items[n]), seen)
         THEN ProcessItems(items, n + 1, seen, batch)
         ELSE ProcessItems(items, n + 1, seen \cup {CveId(items[n])},
                           Append(batch, CleanData(items[n])))

(***************************************************************************)
(* State                                                                    *)
(***************************************************************************)
VARIABLES
    feed,                \* the upstream feed, unchanged during a behaviour
    storage,             \* cve_collection
    pc,                  \* per thread: "idle", "running" (in the while loop), "done"
    last_modified_date,  \* per run: the argument of fetch_and_store_cves
    params,              \* per run: the params dict built at lines 42-49
    start_index,         \* per run
    total_results,       \* per run
    bulk_updates,        \* per run
    seen_cve_ids,        \* per run
    result,              \* per thread: how its run ended: "none", "returned", "raised"
    fetched,             \* history, per run: the page requests issued, in order
    upserted,            \* history, per run: the documents its bulk writes applied, in order
    startStorage,        \* history, per run: the collection when the run started
    afterFull,           \* history, per run: it started right after a completed full run
    lastRun,             \* history: how the run that returned last went
    runs                 \* history: runs started so far

vars == <<feed, storage, pc, last_modified_date, params, start_index, total_results,
          bulk_updates, seen_cve_ids, result, fetched, upserted, startStorage,
          afterFull, lastRun, runs>>

\* a document an earlier deployment stored, for an id the feed does not list
LegacyDoc ==
    [cve_id |-> "CVE-0", source_identifier |-> "mitre", published |-> "2023-01-01",
     last_modified |-> "2023-06-15", status |-> "Analyzed"]

\* a document of an earlier sync for an id the feed lists, since changed upstream
StaleDoc ==
    [cve_id |-> "CVE-1", source_identifier |-> "Unknown", published |-> "Unknown",
     last_modified |-> "Unknown", status |-> "Received"]

\* the collections a behaviour may start from
InitStorages == {SetToBag(S) : S \in SUBSET {LegacyDoc, StaleDoc}}

\* the feeds of the interleaved specification: duplicates on one page and
\* across pages, an id on the second page only, for each total
ConcCatalogs == {<<ItemA, ItemB, ItemC>>, <<ItemC, ItemD, ItemA>>}

ConcFeeds == {Feed(c, t, TRUE) : c \in ConcCatalogs, t \in Totals}

IdleParams == [startIndex |-> 0, resultsPerPage |-> RESULTS_PER_PAGE, modifiedSince |-> None]

InitRun ==
    /\ pc = [p \in Procs |-> "idle"]
    /\ last_modified_date = [p \in Procs |-> None]
    /\ params = [p \in Procs |-> IdleParams]
    /\ start_index = [p \in Procs |-> 0]
    /\ total_results = [p \in Procs |-> NoTotal]
    /\ bulk_updates = [p \in Procs |-> <<>>]
    /\ seen_cve_ids = [p \in Procs |-> {}]
    /\ result = [p \in Procs |-> "none"]
    /\ fetched = [p \in Procs |-> <<>>]
    /\ upserted = [p \in Procs |-> <<>>]
    /\ startStorage = [p \in Procs |-> EmptyBag]
    /\ afterFull = [p \in Procs |-> FALSE]
    /\ lastRun = "none"
    /\ runs = 0

Init ==
    /\ feed \in ConcFeeds
    /\ storage \in {EmptyBag, SetToBag({LegacyDoc})}
    /\ InitRun

(***************************************************************************)
(* fetch_and_store_cves                                                     *)
(***************************************************************************)
\* lines 42-49: the params dict, built once before the loop
BuildParams(start, cutoff) ==
    [startIndex |-> start, resultsPerPage |-> RESULTS_PER_PAGE,
     modifiedSince |-> IF cutoff # None THEN cutoff ELSE None]

\* no run is in progress and every finished run has returned to its caller
Quiet == \A q \in Procs : pc[q] = "idle"

\* lines 37-49: thread p enters fetch_and_store_cves(cutoff)
StartRun(p, cutoff) ==
    /\ pc[p] = "idle"
    /\ runs < MaxRuns
    /\ runs' = runs + 1
    /\ pc' = [pc EXCEPT ![p] = "running"]
    /\ last_modified_date' = [last_modified_date EXCEPT ![p] = cutoff]
    /\ start_index' = [start_index EXCEPT ![p] = 0]
    /\ total_results' = [total_results EXCEPT ![p] = NoTotal]
    /\ bulk_updates' = [bulk_updates EXCEPT ![p] = <<>>]
    /\ seen_cve_ids' = [seen_cve_ids EXCEPT ![p] = {}]
    /\ params' = [params EXCEPT ![p] = BuildParams(0, cutoff)]
    /\ startStorage' = [startStorage EXCEPT ![p] = storage]
    /\ afterFull' = [afterFull EXCEPT ![p] = Quiet /\ lastRun = "full"]
    /\ UNCHANGED <<feed, storage, result, fetched, upserted, lastRun>>

\* Mutant of LoopCondition: `<=` in place of `<`.
LoopConditionInclusive(total, start) == total = NoTotal \/ start <= total

\* line 51: the while condition
LoopCondition(total, start) == total = NoTotal \/ start < total

\* lines 56-57: data.get("totalResults", 0), read while the total is None
LearnTotal(total, data) ==
    IF total = NoTotal
    THEN (IF data.totalResults = NoTotal THEN 0 ELSE data.totalResults)
    ELSE total

\* line 93
Advance(start) == start + RESULTS_PER_PAGE

\* the params of the next request: the loop never writes params["startIndex"]
NextParams(ps, start) == ps

\* lines 60-86 on a response: the seen set and the batch after the page
AfterPage(p, data) ==
    IF data.hasVulns
    THEN ProcessItems(data.vulnerabilities, 1, seen_cve_ids[p], bulk_updates[p])
    ELSE [seen |-> seen_cve_ids[p], batch |-> bulk_updates[p]]

\* Mutant of Cleared: the batch is written and not cleared.
Kept(batch) == batch

\* line 91: bulk_updates.clear()
Cleared(batch) == <<>>

\* One iteration of the loop with a 200 response and a bulk write that
\* succeeds (lines 52-93), then the while condition.
FetchPage(p) ==
    /\ pc[p] = "running"
    /\ LET data == Upstream(feed, params[p].startIndex, params[p].modifiedSince)
           total == LearnTotal(total_results[p], data)
           after == AfterPage(p, data)
           flush == data.hasVulns /\ after.batch # <<>>
           start == Advance(start_index[p])
       IN  /\ fetched' = [fetched EXCEPT ![p] =
                            Append(@, [startIndex |-> params[p].startIndex, ok |-> TRUE])]
           /\ total_results' = [total_results EXCEPT ![p] = total]
           /\ seen_cve_ids' = [seen_cve_ids EXCEPT ![p] = after.seen]
           /\ storage' = IF flush THEN bulk_write(storage, after.batch) ELSE storage
           /\ upserted' = [upserted EXCEPT ![p] = IF flush THEN @ \o after.batch ELSE @]
           /\ bulk_updates' = [bulk_updates EXCEPT ![p] =
                                 IF flush THEN Cleared(after.batch) ELSE after.batch]
           /\ start_index' = [start_index EXCEPT ![p] = start]
           /\ params' = [params EXCEPT ![p] = NextParams(@, start)]
           /\ IF LoopCondition(total, start)
              THEN UNCHANGED <<pc, result>>
              ELSE /\ pc' = [pc EXCEPT ![p] = "done"]
                   /\ result' = [result EXCEPT ![p] = "returned"]
    /\ UNCHANGED <<feed, last_modified_date, startStorage, afterFull, lastRun, runs>>

\* Mutant of FetchStatusError: the abort undoes what the run has written.
FetchStatusErrorRollback(p) ==
    /\ pc[p] = "running"
    /\ fetched' = [fetched EXCEPT ![p] =
                     Append(@, [startIndex |-> params[p].startIndex, ok |-> FALSE])]
    /\ storage' = startStorage[p]
    /\ pc' = [pc EXCEPT ![p] = "done"]
    /\ result' = [result EXCEPT ![p] = "returned"]
    /\ UNCHANGED <<feed, last_modified_date, params, start_index, total_results,
                   bulk_updates, seen_cve_ids, upserted, startStorage, afterFull,
                   lastRun, runs>>

\* Mutant of FetchStatusError: the failed page is counted as read.
FetchStatusErrorAdvances(p) ==
    /\ pc[p] = "running"
    /\ fetched' = [fetched EXCEPT ![p] =
                     Append(@, [startIndex |-> params[p].startIndex, ok |-> FALSE])]
    /\ start_index' = [start_index EXCEPT ![p] = Advance(@)]
    /\ pc' = [pc EXCEPT ![p] = "done"]
    /\ result' = [result EXCEPT ![p] = "returned"]
    /\ UNCHANGED <<feed, storage, last_modified_date, params, total_results,
                   bulk_updates, seen_cve_ids, upserted, startStorage, afterFull,
                   lastRun, runs>>

\* lines 94-96: the response status is not 200: the loop breaks and the
\* function returns normally
FetchStatusError(p) ==
    /\ pc[p] = "running"
    /\ fetched' = [fetched EXCEPT ![p] =
                     Append(@, [startIndex |-> params[p].startIndex, ok |-> FALSE])]
    /\ pc' = [pc EXCEPT ![p] = "done"]
    /\ result' = [result EXCEPT ![p] = "returned"]
    /\ UNCHANGED <<feed, storage, last_modified_date, params, start_index, total_results,
                   bulk_updates, seen_cve_ids, upserted, startStorage, afterFull,
                   lastRun, runs>>

\* line 52 or 54: requests.get raises (network error) or response.json()
\* raises (undecodable body); nothing catches it
FetchRaises(p) ==
    /\ pc[p] = "running"
    /\ fetched' = [fetched EXCEPT ![p] =
                     Append(@, [startIndex |-> params[p].startIndex, ok |-> FALSE])]
    /\ pc' = [pc EXCEPT ![p] = "done"]
    /\ result' = [result EXCEPT ![p] = "raised"]
    /\ UNCHANGED <<feed, storage, last_modified_date, params, start_index, total_results,
                   bulk_updates, seen_cve_ids, upserted, startStorage, afterFull,
                   lastRun, runs>>

\* Mutant of WriteFails: the failed write undoes what the run has written.
WriteFailsRollback(p) ==
    /\ pc[p] = "running"
    /\ LET data == Upstream(feed, params[p].startIndex, params[p].modifiedSince)
           total == LearnTotal(total_results[p], data)
           after == AfterPage(p, data)
       IN  /\ data.hasVulns /\ after.batch # <<>>
           /\ \E n \in 0..(Len(after.batch) - 1) :
                /\ storage' = startStorage[p]
                /\ upserted' = [upserted EXCEPT ![p] = @ \o SubSeq(after.batch, 1, n)]
           /\ fetched' = [fetched EXCEPT ![p] =
                            Append(@, [startIndex |-> params[p].startIndex, ok |-> TRUE])]
           /\ total_results' = [total_results EXCEPT ![p] = total]
           /\ seen_cve_ids' = [seen_cve_ids EXCEPT ![p] = after.seen]
           /\ bulk_updates' = [bulk_updates EXCEPT ![p] = after.batch]
    /\ pc' = [pc EXCEPT ![p] = "done"]
    /\ result' = [result EXCEPT ![p] = "raised"]
    /\ UNCHANGED <<feed, last_modified_date, params, start_index, startStorage,
                   afterFull, lastRun, runs>>

\* line 89 raises: the ordered bulk write stops at its operation n + 1, the
\* first n are applied; nothing catches the error
WriteFails(p) ==
    /\ pc[p] = "running"
    /\ LET data == Upstream(feed, params[p].startIndex, params[p].modifiedSince)
           total == LearnTotal(total_results[p], data)
           after == AfterPage(p, data)
       IN  /\ data.hasVulns /\ after.batch # <<>>
           /\ \E n \in 0..(Len(after.batch) - 1) :
                /\ storage' = ApplyOps(storage, after.batch, n)
                /\ upserted' = [upserted EXCEPT ![p] = @ \o SubSeq(after.batch, 1, n)]
           /\ fetched' = [fetched EXCEPT ![p] =
                            Append(@, [startIndex |-> params[p].startIndex, ok |-> TRUE])]
           /\ total_results' = [total_results EXCEPT ![p] = total]
           /\ seen_cve_ids' = [seen_cve_ids EXCEPT ![p] = after.seen]
           /\ bulk_updates' = [bulk_updates EXCEPT ![p] = after.batch]
    /\ pc' = [pc EXCEPT ![p] = "done"]
    /\ result' = [result EXCEPT ![p] = "raised"]
    /\ UNCHANGED <<feed, last_modified_date, params, start_index, startStorage,
                   afterFull, lastRun, runs>>

\* every request of the run got a 200 response
AllFetchesOk(p) == \A k \in 1..Len(fetched[p]) : fetched[p][k].ok

\* the run walked the loop to its end: no fetch and no write failed
Completed(p) == pc[p] = "done" /\ result[p] = "returned" /\ AllFetchesOk(p)

\* The run's frame is discarded and control is back with the caller (the
\* scheduler's worker, or line 119 and the response).
Return(p) ==
    /\ pc[p] = "done"
    /\ lastRun' = IF Completed(p) /\ last_modified_date[p] = None THEN "full" ELSE "other"
    /\ pc' = [pc EXCEPT ![p] = "idle"]
    /\ result' = [result EXCEPT ![p] = "none"]
    /\ last_modified_date' = [last_modified_date EXCEPT ![p] = None]
    /\ params' = [params EXCEPT ![p] = IdleParams]
    /\ start_index' = [start_index EXCEPT ![p] = 0]
    /\ total_results' = [total_results EXCEPT ![p] = NoTotal]
    /\ bulk_updates' = [bulk_updates EXCEPT ![p] = <<>>]
    /\ seen_cve_ids' = [seen_cve_ids EXCEPT ![p] = {}]
    /\ fetched' = [fetched EXCEPT ![p] = <<>>]
    /\ upserted' = [upserted EXCEPT ![p] = <<>>]
    /\ startStorage' = [startStorage EXCEPT ![p] = EmptyBag]
    /\ afterFull' = [afterFull EXCEPT ![p] = FALSE]
    /\ UNCHANGED <<feed, storage, runs>>

\* fetch_and_store_cves as a function of the feed, the collection it
\* starts from and its argument, when no request and no write fails: the
\* collection it leaves.  RunLoop is the while loop from one evaluation of
\* its condition on.
RECURSIVE RunLoop(_, _, _, _, _, _, _)
RunLoop(f, st, ps, start, total, seen, batch) ==
    IF ~LoopCondition(total, start) THEN st
    ELSE LET data == Upstream(f, ps.startIndex, ps.modifiedSince)
             after == IF data.hasVulns
                      THEN ProcessItems(data.vulnerabilities, 1, seen, batch)
                      ELSE [seen |-> seen, batch |-> batch]
             flush == data.hasVulns /\ after.batch # <<>>
         IN  RunLoop(f,
                     IF flush THEN bulk_write(st, after.batch) ELSE st,
                     NextParams(ps, Advance(start)),
                     Advance(start),
                     LearnTotal(total, data),
                     after.seen,
                     IF flush THEN Cleared(after.batch) ELSE after.batch)

fetch_and_store_cves(f, st, cutoff) ==
    RunLoop(f, st, BuildParams(0, cutoff), 0, NoTotal, {}, <<>>)

(***************************************************************************)
(* The triggers                                                             *)
(***************************************************************************)
\* line 108: the six-hour job calls fetch_and_store_cves with no argument
IncrementalJob == StartRun("incremental", None)

\* line 111: the 24-hour job calls fetch_and_store_cves(last_modified_date=None)
FullJob == StartRun("full", None)

\* lines 115-118: GET /fetch_cves
fetch_cves == StartRun("ondemand", get_last_modified_date(storage))

\* line 119 is reached when fetch_and_store_cves returned; an exception
\* becomes the framework's error response
Response(res) ==
    CASE res = "returned" -> "CVE data fetched and stored successfully."
      [] res = "raised" -> "500 Internal Server Error"
      [] OTHER -> "pending"

\* The program: the scheduler's two jobs and the request thread run
\* whenever their trigger fires, whatever the other threads are doing.
Next ==
    \/ IncrementalJob
    \/ FullJob
    \/ fetch_cves
    \/ \E p \in Procs : FetchPage(p)
    \/ \E p \in Procs : FetchStatusError(p)
    \/ \E p \in Procs : FetchRaises(p)
    \/ \E p \in Procs : WriteFails(p)
    \/ \E p \in Procs : Return(p)

Spec == Init /\ [][Next]_vars

\* Runs one after the other: the triggers fire only while no run is in
\* progress, over every feed and starting collection of the model.
InitSeq ==
    /\ feed \in Feeds
    /\ storage \in InitStorages
    /\ InitRun

NextSeq ==
    \/ Quiet /\ IncrementalJob
    \/ Quiet /\ FullJob
    \/ Quiet /\ fetch_cves
    \/ \E p \in Procs : FetchPage(p)
    \/ \E p \in Procs : FetchStatusError(p)
    \/ \E p \in Procs : FetchRaises(p)
    \/ \E p \in Procs : WriteFails(p)
    \/ \E p \in Procs : Return(p)

SpecSeq == InitSeq /\ [][NextSeq]_vars

\* One iteration of the loop of thread p, whatever its outcome.
RunStep(p) == FetchPage(p) \/ FetchStatusError(p) \/ FetchRaises(p) \/ WriteFails(p)

\* The program with its threads kept running, runs one after the other: a
\* thread inside the loop of fetch_and_store_cves is scheduled again and
\* again, and each of its requests ends with a response or an exception.
LiveFeeds ==
    {Feed(<<ItemA, ItemC, ItemB>>, t, TRUE) : t \in Totals \cup {NoTotal}}
    \cup {Feed(<<>>, 450, FALSE)}

InitLive ==
    /\ feed \in LiveFeeds
    /\ storage = EmptyBag
    /\ InitRun

SpecLive == InitLive /\ [][NextSeq]_vars /\ \A p \in Procs : WF_vars(RunStep(p))

\* The normalisation of an item on every raw value of the model: full
\* syncs, one at a time and without failures, on an empty collection, over
\* one-page feeds: a single item whose published and lastModified range
\* over RawDates independently, or two items, the first with an id that is
\* absent, empty, blank or proper, both with or without sourceIdentifier
\* and vulnStatus.
NormItem(pub, lm) == Item("CVE-3", "mitre", pub, lm, "Analyzed")

RawIds == {Absent, "", "   ", "CVE-1"}

FieldFeeds ==
    {Feed(<<Item(id, src, TsJan, TsJun, st), Item(" CVE-2 ", src, TsJan, TsJun, st)>>,
          200, TRUE) :
        id \in RawIds, src \in {Absent, " nvd@nist.gov "}, st \in {Absent, "Analyzed"}}

NormFeeds ==
    {Feed(<<NormItem(pub, lm)>>, 200, TRUE) : pub \in RawDates, lm \in RawDates}
    \cup FieldFeeds

InitNorm ==
    /\ feed \in NormFeeds
    /\ storage = EmptyBag
    /\ InitRun

NextNorm ==
    \/ Quiet /\ FullJob
    \/ \E p \in Procs : FetchPage(p)
    \/ \E p \in Procs : Return(p)

SpecNorm == InitNorm /\ [][NextNorm]_vars

(***************************************************************************)
(* Notions the properties are stated in                                     *)
(***************************************************************************)
running == {p \in Procs : pc[p] = "running"}

\* the run of p was ended by a failed fetch (lines 94-96, or an exception
\* of the request)
FetchFailed(p) ==
    /\ pc[p] = "done"
    /\ fetched[p] # <<>>
    /\ ~fetched[p][Len(fetched[p])].ok

\* the run of p was ended by a failed bulk write
WriteFailed(p) == pc[p] = "done" /\ result[p] = "raised" /\ AllFetchesOk(p)

\* the items of the responses the run of p received, in the order received
RECURSIVE ReceivedUpTo(_, _)
ReceivedUpTo(p, k) ==
    IF k = 0 THEN <<>>
    ELSE ReceivedUpTo(p, k - 1) \o
         (IF fetched[p][k].ok
          THEN Upstream(feed, fetched[p][k].startIndex, params[p].modifiedSince).vulnerabilities
          ELSE <<>>)

Received(p) == ReceivedUpTo(p, Len(fetched[p]))

\* the first item of items that carries the id
FirstWith(items, id) ==
    items[CHOOSE i \in 1..Len(items) :
              /\ CveId(items[i]) = id
              /\ \A j \in 1..(i - 1) : CveId(items[j]) # id]

IdsOf(items) == {CveId(items[i]) : i \in 1..Len(items)} \ {""}

\* upserts of the run of p for the id
UpsertsOf(p, id) == {i \in 1..Len(upserted[p]) : upserted[p][i].cve_id = id}

\* the offsets 0, P, 2P, ... below the bound
OffsetsBelow(bound) ==
    {k * RESULTS_PER_PAGE : k \in 0..((bound + RESULTS_PER_PAGE - 1) \div RESULTS_PER_PAGE)}
        \cap 0..(bound - 1)

\* the ids of the feed's pages at the offsets below the bound, as the
\* upstream serves them under the run's cutoff
FeedIdsBelow(p, bound) ==
    UNION {IdsOf(Upstream(feed, o, params[p].modifiedSince).vulnerabilities) :
              o \in OffsetsBelow(bound)}

\* the greatest last_modified among the documents that carry a date, None
\* when there is none
Watermark(st) ==
    LET dated == {x \in Docs(st) : x.last_modified # Unknown}
    IN  IF dated = {} THEN None
        ELSE (CHOOSE x \in dated :
                 \A y \in dated : Rank(y.last_modified) <= Rank(x.last_modified)).last_modified

\* a timestamp string of the expected upstream layout: date, time and
\* fractional seconds, naming a day of the calendar
IsTimestamp(v) ==
    /\ v.kind = "str"
    /\ v.fmt = "%Y-%m-%dT%H:%M:%S.%f"
    /\ v.mo \in 1..12
    /\ v.d \in 1..DaysIn(v.y, v.mo)

\* the date-only equivalent of a timestamp, "Unknown" for anything else
DateOnlyOrUnknown(v) ==
    IF IsTimestamp(v) THEN ToString(v.y) \o "-" \o Pad2(v.mo) \o "-" \o Pad2(v.d)
    ELSE Unknown

(***************************************************************************)
(* Properties                                                               *)
(***************************************************************************)
\* C1: in every reachable state at most one sync run is in progress,
\* whatever the interleaving of the two scheduler jobs and /fetch_cves.
C1_AtMostOneRun == Cardinality(running) <= 1

\* C2: a run whose fetches all succeed and whose first page reports a total
\* T >= 1 ends after exactly ceil(T / 200) page requests, the k-th of them
\* (k = 0, 1, ...) asking for startIndex = k * 200.
C2_PaginationOffsets ==
    \A p \in Procs :
        Completed(p) /\ total_results[p] >= 1 =>
            /\ Len(fetched[p]) =
                 (total_results[p] + RESULTS_PER_PAGE - 1) \div RESULTS_PER_PAGE
            /\ \A k \in 1..Len(fetched[p]) :
                 fetched[p][k].startIndex = (k - 1) * RESULTS_PER_PAGE

\* C3: when a run ends, completed or ended by a failed fetch, every
\* non-empty id of the feed's pages at offsets 0, 200, 400, ... below the
\* failing offset (below the total for a completed run) is in storage and
\* was upserted exactly once by the run.
C3_FeedRecordsUpsertedOnce ==
    \A p \in Procs :
        pc[p] = "done" /\ ~WriteFailed(p) /\ total_results[p] # NoTotal =>
            \A id \in FeedIdsBelow(p, IF FetchFailed(p) THEN start_index[p]
                                      ELSE total_results[p]) :
                /\ id \in StoredIds(storage)
                /\ Cardinality(UpsertsOf(p, id)) = 1

\* C4: within one run at most one upsert is issued per id; the document
\* upserted for an id is the one built from the first item with that id in
\* the pages received, and it is the stored document when the run has ended.
C4_FirstOccurrenceWins ==
    \A p \in Procs :
        \A i \in 1..Len(upserted[p]) :
            LET doc == upserted[p][i]
            IN  /\ UpsertsOf(p, doc.cve_id) = {i}
                /\ doc = CleanData(FirstWith(Received(p), doc.cve_id))
                /\ pc[p] = "done" => Matching(storage, doc.cve_id) = {doc}

\* C4 witness: a run has ended that received two items with one id and
\* different fields and upserted that id
C4_Witness ==
    \E p \in Procs :
        /\ pc[p] = "done"
        /\ \E i, j \in 1..Len(Received(p)) :
             /\ i < j
             /\ CveId(Received(p)[i]) = CveId(Received(p)[j])
             /\ CleanData(Received(p)[i]) # CleanData(Received(p)[j])
             /\ UpsertsOf(p, CveId(Received(p)[i])) # {}

\* C5: a full sync (no cutoff) that runs to completion right after a
\* completed full sync leaves the collection as it found it, whatever the
\* collection the first of the two started from.
C5_FullSyncIdempotent ==
    \A p \in Procs :
        Completed(p) /\ last_modified_date[p] = None /\ afterFull[p] =>
            storage = startStorage[p]

\* C5 witness: a second full sync in a row has completed and has written
\* documents
C5_Witness ==
    \E p \in Procs :
        /\ Completed(p) /\ last_modified_date[p] = None /\ afterFull[p]
        /\ Len(upserted[p]) >= 2

\* C6: get_last_modified_date returns the greatest last_modified among the
\* stored documents other than "Unknown", None when there is none, and no
\* run is given "Unknown" as its cutoff.
C6_WatermarkExcludesUnknown ==
    /\ get_last_modified_date(storage) = Watermark(storage)
    /\ \A p \in Procs : pc[p] # "idle" => last_modified_date[p] # Unknown

\* C7: after a run that a failed fetch ended, every non-empty id of the
\* pages it had received is in storage, and every document its bulk writes
\* applied is stored as written.
C7_PartialFailureDurable ==
    \A p \in Procs :
        FetchFailed(p) =>
            /\ IdsOf(Received(p)) \subseteq StoredIds(storage)
            /\ \A i \in 1..Len(upserted[p]) : BagIn(upserted[p][i], storage)

\* C7 witness: a run that had flushed a page was ended by a failed fetch
C7_Witness ==
    \E p \in Procs :
        /\ FetchFailed(p)
        /\ Len(fetched[p]) >= 2
        /\ upserted[p] # <<>>
        /\ storage # startStorage[p]

\* C8: /fetch_cves answers with its success message only when the run had
\* no failed fetch.
C8_FailureSurfaced ==
    Response(result["ondemand"]) = "CVE data fetched and stored successfully." =>
        AllFetchesOk("ondemand")

\* C9: a run the incremental job started was given the watermark of the
\* collection at that moment as its cutoff, and a run the full job started
\* was given none.
C9_TriggerCutoffs ==
    /\ pc["incremental"] # "idle" =>
         last_modified_date["incremental"] \in
             {get_last_modified_date(startStorage["incremental"]),
              Watermark(startStorage["incremental"])}
    /\ pc["full"] # "idle" => last_modified_date["full"] = None

\* C10: a trigger that fires while a run is in progress starts no run.
C10_SkipIfBusy ==
    [][\A p \in Procs :
          pc[p] = "idle" /\ pc'[p] = "running" => running = {}]_vars

\* C11: published and lastModified are normalised each on its own: a
\* timestamp string of the expected layout becomes its date, every other
\* value (another string, null, absent, a number) becomes "Unknown", no
\* exception escapes, whatever the value of the other field.
C11_DateNormalization ==
    \A p \in Procs :
        \A i \in 1..Len(upserted[p]) :
            LET raw == FirstWith(feed.catalog, upserted[p][i].cve_id)
                doc == upserted[p][i]
            IN  /\ doc.published = DateOnlyOrUnknown(raw.published)
                /\ doc.last_modified = DateOnlyOrUnknown(raw.lastModified)

\* C11 witness: a document was written with a date in one field and
\* "Unknown" in the other, from a timestamp and a number
C11_Witness ==
    \E p \in Procs :
        /\ pc[p] = "done"
        /\ feed.catalog = <<NormItem(NumDate, TsJun)>>
        /\ \E x \in Docs(storage) :
             x.published = Unknown /\ x.last_modified = "2023-06-15"

\* C12: a sync without cutoff that a failure ended leaves a collection from
\* which a sync without cutoff that completes produces what one completed
\* sync would have produced from the collection the failed one started
\* from; and a completed sync produces exactly that from where it starts.
C12_ConvergenceAfterFailure ==
    \A p \in Procs :
        pc[p] = "done" /\ last_modified_date[p] = None =>
            IF Completed(p)
            THEN storage = fetch_and_store_cves(feed, startStorage[p], None)
            ELSE fetch_and_store_cves(feed, storage, None) =
                     fetch_and_store_cves(feed, startStorage[p], None)

\* C12 witness: the first sync, started on an empty collection (so without
\* cutoff), failed after writing CVE-2 and not CVE-1, and the sync after it
\* has completed and written CVE-1
C12_Witness ==
    \E p \in Procs :
        /\ Completed(p) /\ last_modified_date[p] = None
        /\ lastRun = "other" /\ runs = 2
        /\ StoredIds(startStorage[p]) = {"CVE-2"}
        /\ StoredIds(storage) = {"CVE-1", "CVE-2"}

\* C13: the step in which a request of a run fails leaves the run's offset
\* cursor and its learned total as they were, writes nothing and ends the
\* loop; from then on the run issues no request and no write.
C13_FetchFailureAborts ==
    [][\A p \in Procs :
          /\ (/\ Len(fetched'[p]) = Len(fetched[p]) + 1
              /\ ~fetched'[p][Len(fetched'[p])].ok)
                => /\ start_index'[p] = start_index[p]
                   /\ total_results'[p] = total_results[p]
                   /\ storage' = storage
                   /\ upserted'[p] = upserted[p]
                   /\ pc'[p] = "done"
          /\ FetchFailed(p) /\ pc'[p] # "idle"
                => /\ fetched'[p] = fetched[p]
                   /\ upserted'[p] = upserted[p]
                   /\ pc'[p] = "done"]_vars

\* C13 witness: the second request of a run raised, after a page that
\* reported a total of 450 had been processed
C13_Witness ==
    \E p \in Procs :
        /\ FetchFailed(p) /\ result[p] = "raised"
        /\ Len(fetched[p]) = 2
        /\ start_index[p] = RESULTS_PER_PAGE
        /\ total_results[p] = 450

\* C14: a run that is about to issue a request has an empty batch: what the
\* page before added to it was written and the batch cleared.
C14_BatchEmptyAtFetch ==
    \A p \in Procs : pc[p] = "running" => bulk_updates[p] = <<>>

\* C14 witness: a run has written the two documents of its first page and
\* is about to issue its second request
C14_Witness ==
    \E p \in Procs :
        /\ pc[p] = "running"
        /\ Len(fetched[p]) = 1
        /\ Len(upserted[p]) = 2
        /\ bulk_updates[p] = <<>>

\* C15: every run that is in its loop leaves it; an iteration whose request
\* and write succeed adds the page size to the offset cursor, an iteration
\* whose request or write fails ends the run, and a request is issued only
\* while the total is unknown or the cursor is below it.
C15_RunTerminates ==
    /\ \A p \in Procs : (pc[p] = "running") ~> (pc[p] = "done")
    /\ [][\A p \in Procs :
             Len(fetched'[p]) = Len(fetched[p]) + 1 =>
                 /\ total_results[p] # NoTotal => start_index[p] < total_results[p]
                 /\ IF fetched'[p][Len(fetched'[p])].ok /\ result'[p] # "raised"
                    THEN start_index'[p] = start_index[p] + RESULTS_PER_PAGE
                    ELSE pc'[p] = "done"
                 /\ pc'[p] = "running" =>
                        /\ total_results'[p] # NoTotal
                        /\ start_index'[p] < total_results'[p]]_vars

\* C15 witness: a run over a feed of 450 records has left its loop after
\* three pages, with the cursor at 600
C15_Witness ==
    \E p \in Procs :
        /\ Completed(p)
        /\ total_results[p] = 450
        /\ Len(fetched[p]) = 3
        /\ start_index[p] = 3 * RESULTS_PER_PAGE

\* C16: while no write of a run has failed, every item it received with a
\* non-empty id, first of that id, was upserted, also when one of its dates
\* is missing or unparseable: the document carries "Unknown" in that date
\* field, and the id, source and status it would carry with both dates
\* well-formed; and nothing else of the responses was dropped.
C16_ParseFailureConfined ==
    \A p \in Procs :
        ~WriteFailed(p) =>
            /\ \A i \in 1..Len(Received(p)) :
                 LET item == Received(p)[i]
                     wellFormed == [item EXCEPT !.published = TsJan, !.lastModified = TsJan]
                 IN  (/\ CveId(item) # ""
                      /\ \A j \in 1..(i - 1) : CveId(Received(p)[j]) # CveId(item))
                     => \E k \in 1..Len(upserted[p]) :
                           upserted[p][k] =
                               [CleanData(wellFormed) EXCEPT
                                   !.published = DateOnlyOrUnknown(item.published),
                                   !.last_modified = DateOnlyOrUnknown(item.lastModified)]
            /\ Len(upserted[p]) = Cardinality(IdsOf(Received(p)))

\* C16 witness: a run has completed over a page that holds an item with two
\* unparseable dates followed by a well-formed item, and wrote both
C16_Witness ==
    \E p \in Procs :
        /\ Completed(p)
        /\ feed.catalog = <<ItemC, ItemA>>
        /\ Len(upserted[p]) = 2
        /\ upserted[p][1].cve_id = "CVE-2"
        /\ upserted[p][1].published = Unknown /\ upserted[p][1].last_modified = Unknown
        /\ upserted[p][2].published = "2023-01-01"

C18_StoredRecordsWellFormed ==
    \A x \in Docs(storage) :
        /\ DOMAIN x = {"cve_id", "source_identifier", "published", "last_modified", "status"}
        /\ x.cve_id # ""
        /\ \E i \in 1..Len(feed.catalog) :
             LET item == feed.catalog[i]
             IN  /\ item.id \notin {Absent, "", "   "}
                 /\ x.cve_id = Strip(item.id)
                 /\ item.sourceIdentifier = Absent => x.source_identifier = Unknown
                 /\ item.vulnStatus = Absent => x.status = Unknown
                 /\ x.published \in {Unknown, "2023-01-01", "2023-06-15"}
                 /\ x.last_modified \in {Unknown, "2023-01-01", "2023-06-15"}

\* C18 witness: a sync has completed over a page whose first item has no
\* id and whose second has neither source nor status: one document is
\* stored, with "Unknown" for both
C18_Witness ==
    \E p \in Procs :
        /\ Completed(p)
        /\ Len(feed.catalog) = 2
        /\ feed.catalog[1].id = Absent
        /\ feed.catalog[2].sourceIdentifier = Absent
        /\ feed.catalog[2].vulnStatus = Absent
        /\ \E x \in Docs(storage) :
             /\ Docs(storage) = {x}
             /\ x.cve_id = "CVE-2" /\ x.source_identifier = Unknown /\ x.status = Unknown

\* C19: no step of the program, whatever the interleaving of the runs and
\* however they end, removes an id from storage.
C19_NeverDeletes ==
    [][StoredIds(storage) \subseteq StoredIds(storage')]_vars

\* C19 witness: two runs are in progress at once on a collection that
\* started with a document of an id the feed does not list; that document
\* and the document written since are both stored, and one run has failed
C19_Witness ==
    /\ Cardinality(running) >= 2
    /\ BagIn(LegacyDoc, storage)
    /\ StoredIds(storage) = {"CVE-0", "CVE-2"}
    /\ \E p \in Procs : pc[p] = "done" /\ ~Completed(p)

\* C20: while a run is in progress or has ended, the documents of every id
\* that is in none of the responses it received are the ones stored when it
\* started, no more and no fewer; and a run whose first request failed has
\* left the collection as it was.
C20_RunFrame ==
    \A p \in Procs :
        pc[p] # "idle" =>
            /\ \A x \in Docs(storage) \cup Docs(startStorage[p]) :
                 x.cve_id \notin IdsOf(Received(p)) =>
                     CopiesIn(x, storage) = CopiesIn(x, startStorage[p])
            /\ (FetchFailed(p) /\ Len(fetched[p]) = 1) => storage = startStorage[p]

\* C20 witness: a run has completed on a collection that held a document of
\* an id the feed lists and one of an id it does not: the first is
\* replaced, the second is as it was
C20_Witness ==
    \E p \in Procs :
        /\ Completed(p)
        /\ BagIn(StaleDoc, startStorage[p]) /\ ~BagIn(StaleDoc, storage)
        /\ BagIn(LegacyDoc, startStorage[p]) /\ BagIn(LegacyDoc, storage)
        /\ "CVE-1" \in IdsOf(Received(p))
        /\ "CVE-2" \in StoredIds(storage)

====
